---- MODULE Spec2Model ----
(***************************************************************************)
(* Model of the two reconcilers of eksctl covered by the specification:    *)
(*   - doUpdateClusterEndpoints (utils update-cluster-endpoints)           *)
(*   - UpdateAWSNode            (default add-on aws-node)                  *)
(* Each invocation is one atomic step: both functions run synchronously    *)
(* to completion on the caller's thread.  The remote state (the cluster's  *)
(* endpoint access and the cluster's objects) persists between             *)
(* invocations; `ep' and `ad' record the inputs, the result, the log lines *)
(* and the collaborator calls of the latest invocation.                    *)
(***************************************************************************)
EXTENDS Integers, Sequences, FiniteSets, TLC

VARIABLES live, ep, cluster, ad

vars == <<live, ep, cluster, ad>>

(***************************************************************************)
(* Endpoint access reconciler                                              *)
(***************************************************************************)

\* A command-line boolean flag: not given, given as true, given as false.
Overrides == {"unset", "true", "false"}

\* fs.BoolVar(&private, "private-access", false, ...): the variable holds the
\* default false unless the flag was given.
FlagValue(ov) == ov = "true"

\* accessFlagsSet: pflag's Changed bit of the flag.
accessFlagsSet(ov) == ov # "unset"

\* The collaborator steps of doUpdateClusterEndpoints that can fail.
EndpointFailPoints ==
    {"none", "Load", "NewCtl", "CheckAuth", "CanUpdate",
     "GetCurrentClusterConfigForEndpoints", "UpdateClusterConfigForEndpoints"}

\* api.ClusterConfig.ValidateClusterEndpointConfig on the endpoints written
\* to cfg.VPC.ClusterEndpoints.
ValidateClusterEndpointConfig(priv, pub) ==
    IF ~priv /\ ~pub THEN "ErrClusterEndpointNoAccess"
    ELSE IF priv /\ ~pub THEN "ErrClusterEndpointPrivateOnly"
    ELSE "nil"

\* ctl.UpdateClusterConfigForEndpoints: the remote update is all-or-nothing.
UpdateClusterConfigForEndpoints(cur, priv, pub, ok) ==
    IF ok THEN [private |-> priv, public |-> pub] ELSE cur

\* Variant: the Changed bit is ignored, the flag's value is always used.
ResolveAccess_IgnoreSet(flagValue, flagSet, curValue) == flagValue

\* Lines 87-92: an unset flag keeps the current value.
ResolveAccess(flagValue, flagSet, curValue) ==
    IF ~flagSet THEN curValue ELSE flagValue

\* Variant: the comparison with ErrClusterEndpointPrivateOnly is inverted.
ValidationVerdict_Inverted(verr) ==
    IF verr # "nil"
    THEN IF verr = "ErrClusterEndpointPrivateOnly" THEN "reject" ELSE "warn"
    ELSE "accept"

\* Variant: every validation error is returned, private-only included.
ValidationVerdict_RejectAll(verr) ==
    IF verr # "nil" THEN "reject" ELSE "accept"

\* Variant: every validation error is only logged as a warning.
ValidationVerdict_WarnAll(verr) ==
    IF verr # "nil" THEN "warn" ELSE "accept"

\* Lines 111-117: what the reconciler does with the validation result.
ValidationVerdict(verr) ==
    IF verr # "nil"
    THEN IF verr # "ErrClusterEndpointPrivateOnly" THEN "reject" ELSE "warn"
    ELSE "accept"

\* Variant: the second comparison is made against curPrivate.
NothingChanged_Typo(newPrivate, newPublic, curPrivate, curPublic) ==
    newPrivate = curPrivate /\ newPublic = curPrivate

\* Variant: the early return is never taken.
NothingChanged_Never(newPrivate, newPublic, curPrivate, curPublic) == FALSE

\* Lines 94-95: "Nothing changed?"
NothingChanged(newPrivate, newPublic, curPrivate, curPublic) ==
    newPrivate = curPrivate /\ newPublic = curPublic

\* Variant: the plan flag is not consulted.
ShouldUpdate_Always(plan) == TRUE

\* Variant: the test of the plan flag is inverted.
ShouldUpdate_Inverted(plan) == plan

\* Line 119: the update is sent unless the command runs in plan mode.
ShouldUpdate(plan) == ~plan

\* Variant: the two assignments to cfg.VPC.ClusterEndpoints are crossed.
ClusterEndpoints_Crossed(newPrivate, newPublic) ==
    [private |-> newPublic, public |-> newPrivate]

\* Lines 101-102: the resolved values are written to cfg.VPC.ClusterEndpoints,
\* which validation and update read.
ClusterEndpoints(newPrivate, newPublic) ==
    [private |-> newPrivate, public |-> newPublic]

EpResult(err, calls, logs, newPrivate, newPublic, verdict, after) ==
    [err |-> err, calls |-> calls, logs |-> logs,
     newPrivate |-> newPrivate, newPublic |-> newPublic,
     verdict |-> verdict, live |-> after]

\* doUpdateClusterEndpoints(cmd, newPrivate, newPublic), cmd.Plan = plan.
doUpdateClusterEndpoints(cur, privOv, pubOv, plan, fail) ==
    LET flagPrivate == FlagValue(privOv)
        flagPublic  == FlagValue(pubOv)
        curPrivate  == cur.private
        curPublic   == cur.public
        newPrivate  == ResolveAccess(flagPrivate, accessFlagsSet(privOv), curPrivate)
        newPublic   == ResolveAccess(flagPublic, accessFlagsSet(pubOv), curPublic)
        cfg         == ClusterEndpoints(newPrivate, newPublic)
        verr        == ValidateClusterEndpointConfig(cfg.private, cfg.public)
        verdict     == ValidationVerdict(verr)
        c4          == <<"Load", "NewCtl", "CheckAuth", "CanUpdate">>
        c5          == Append(c4, "GetCurrentClusterConfigForEndpoints")
        c6          == Append(c5, "ValidateClusterEndpointConfig")
        l2          == <<"region", "current">>
        l3          == Append(l2, "intended")
        l4          == IF verdict = "warn" THEN Append(l3, "warning") ELSE l3
    IN
    IF fail = "Load"
    THEN EpResult("LoadError", <<"Load">>, <<>>, flagPrivate, flagPublic, "none", cur)
    ELSE IF fail = "NewCtl"
    THEN EpResult("NewCtlError", <<"Load", "NewCtl">>, <<>>,
                  flagPrivate, flagPublic, "none", cur)
    ELSE IF fail = "CheckAuth"
    THEN EpResult("CheckAuthError", <<"Load", "NewCtl", "CheckAuth">>, <<"region">>,
                  flagPrivate, flagPublic, "none", cur)
    ELSE IF fail = "CanUpdate"
    THEN EpResult("CanUpdateError", c4, <<"region">>,
                  flagPrivate, flagPublic, "none", cur)
    ELSE IF fail = "GetCurrentClusterConfigForEndpoints"
    THEN EpResult("GetCurrentError", c5, <<"region">>,
                  flagPrivate, flagPublic, "none", cur)
    ELSE IF NothingChanged(newPrivate, newPublic, curPrivate, curPublic)
    THEN EpResult("nil", c5, Append(l2, "upToDate"),
                  newPrivate, newPublic, "none", cur)
    ELSE IF verdict = "reject"
    THEN EpResult(verr, c6, l3, newPrivate, newPublic, verdict, cur)
    ELSE IF ShouldUpdate(plan)
    THEN LET ok == fail # "UpdateClusterConfigForEndpoints"
             c7 == Append(c6, "UpdateClusterConfigForEndpoints")
         IN IF ~ok
            THEN EpResult("UpdateError", c7, l4, newPrivate, newPublic, verdict,
                          UpdateClusterConfigForEndpoints(cur, cfg.private, cfg.public, FALSE))
            ELSE EpResult("nil", c7, l4 \o <<"completed", "planModeWarning">>,
                          newPrivate, newPublic, verdict,
                          UpdateClusterConfigForEndpoints(cur, cfg.private, cfg.public, TRUE))
    ELSE EpResult("nil", c6, Append(l4, "planModeWarning"),
                  newPrivate, newPublic, verdict, cur)

EpIdle ==
    [op |-> "idle", privOv |-> "unset", pubOv |-> "unset", plan |-> FALSE,
     fail |-> "none", before |-> [private |-> FALSE, public |-> TRUE],
     err |-> "nil", calls |-> <<>>, logs |-> <<>>,
     newPrivate |-> FALSE, newPublic |-> FALSE, verdict |-> "none"]

AccessStates == [private : BOOLEAN, public : BOOLEAN]

(***************************************************************************)
(* Add-on manifest reconciler (aws-node)                                   *)
(***************************************************************************)

\* The longest manifest considered.
MaxItems == 2

AWSNode == "aws-node"

\* An image reference is the sequence of its pieces; ":" is the separator
\* character strings.Split cuts at.
awsNodeImageSuffix == <<".amazonaws.com/amazon-k8s-cni">>

\* fmt.Sprintf(awsNodeImagePrefixPTN, accountID) with "%s.dkr.ecr."
awsNodeImagePrefix(accountID) == <<accountID, ".dkr.ecr.">>

Regions == {"us-west-2", "ap-east-1"}

\* api.EKSResourceAccountID: the account hosting the EKS images of a region.
EKSResourceAccountID(region) ==
    IF region = "ap-east-1" THEN "800184023465" ELSE "602401143452"

UpstreamImage ==
    <<"602401143452", ".dkr.ecr.", "us-west-2">> \o awsNodeImageSuffix \o <<":", "v1.5.3">>
CustomImage  == <<"registry.example.com/cni", ":", "v1.5.3">>
NoTagImage   == <<"602401143452", ".dkr.ecr.", "us-west-2">> \o awsNodeImageSuffix
TwoTagImage  == <<"localhost", ":", "5000/cni", ":", "v1.5.3">>
OldImage     ==
    <<"602401143452", ".dkr.ecr.", "us-west-2">> \o awsNodeImageSuffix \o <<":", "v1.5.0">>

Images == {UpstreamImage, CustomImage, NoTagImage, TwoTagImage}

\* Index of the first ":" of s, 0 when there is none.
RECURSIVE IndexOfSep(_, _)
IndexOfSep(s, i) ==
    IF i > Len(s) THEN 0
    ELSE IF s[i] = ":" THEN i
    ELSE IndexOfSep(s, i + 1)

\* strings.Split(s, ":"): the pieces between the separators, n separators
\* giving n+1 pieces.
RECURSIVE Split(_)
Split(s) ==
    LET i == IndexOfSep(s, 1) IN
    IF i = 0 THEN <<s>>
    ELSE <<SubSeq(s, 1, i - 1)>> \o Split(SubSeq(s, i + 1, Len(s)))

\* strings.HasSuffix(s, suffix)
HasSuffix(s, suffix) ==
    /\ Len(s) >= Len(suffix)
    /\ SubSeq(s, Len(s) - Len(suffix) + 1, Len(s)) = suffix

\* Identity of a cluster object: kind + name (all objects of the add-on
\* live in the system namespace or are cluster-scoped).
DaemonSetKey == [kind |-> "DaemonSet", name |-> AWSNode]
CRDKey       == [kind |-> "CustomResourceDefinition", name |-> "eniconfigs.crd.k8s.amazonaws.com"]
RoleKey      == [kind |-> "ClusterRole", name |-> AWSNode]
Keys         == {DaemonSetKey, CRDKey, RoleKey}

Absent == [present |-> FALSE, spec |-> <<>>]
Obj(spec) == [present |-> TRUE, spec |-> spec]

\* The raw objects a manifest is made of.
ItemPool ==
    {[kind |-> "DaemonSet", name |-> AWSNode, spec |-> img] : img \in Images}
    \cup {[kind |-> CRDKey.kind, name |-> CRDKey.name, spec |-> <<"crd-v2">>],
          [kind |-> RoleKey.kind, name |-> RoleKey.name, spec |-> <<"rules-v2">>]}

Manifests == UNION {[1..n -> ItemPool] : n \in 0..MaxItems}

KeyOf(item) == [kind |-> item.kind, name |-> item.name]

\* Where an UpdateAWSNode run can meet a failing collaborator: the probe,
\* the asset load (at = 0) or one step of item number `at'.
NoFail == [at |-> 0, step |-> "none"]
AddonFailPoints ==
    {NoFail, [at |-> 0, step |-> "Probe"], [at |-> 0, step |-> "LoadAsset"]}
    \cup [at : 1..MaxItems, step : {"NewRawResource", "Get", "Mutate"}]

\* resource.LogAction(plan, verb)
LogAction(plan, verb) == [plan |-> plan, verb |-> verb]

Call(op, i) == [op |-> op, item |-> i]

\* Variant of create-or-replace: an object that is present keeps its old
\* specification.
CreateOrReplace_KeepExisting(objs, item, i, plan, fail) ==
    LET k == KeyOf(item)
        get == <<Call("Get", i)>>
    IN
    IF fail = [at |-> i, step |-> "Get"]
    THEN [err |-> "GetError", status |-> LogAction(plan, "none"),
          cluster |-> objs, calls |-> get]
    ELSE LET verb == IF objs[k].present THEN "replaced" ELSE "created"
             op   == IF objs[k].present THEN "Replace" ELSE "Create"
         IN IF plan
            THEN [err |-> "nil", status |-> LogAction(plan, verb),
                  cluster |-> objs, calls |-> get]
            ELSE IF fail = [at |-> i, step |-> "Mutate"]
            THEN [err |-> op \o "Error", status |-> LogAction(plan, "none"),
                  cluster |-> objs, calls |-> Append(get, Call(op, i))]
            ELSE [err |-> "nil", status |-> LogAction(plan, verb),
                  cluster |-> IF objs[k].present THEN objs
                              ELSE [objs EXCEPT ![k] = Obj(item.spec)],
                  calls |-> Append(get, Call(op, i))]

\* RawResource.CreateOrReplace(plan): look the object up by identity, create
\* it when absent, replace it otherwise; in plan mode only the lookup is made.
CreateOrReplace(objs, item, i, plan, fail) ==
    LET k == KeyOf(item)
        get == <<Call("Get", i)>>
    IN
    IF fail = [at |-> i, step |-> "Get"]
    THEN [err |-> "GetError", status |-> LogAction(plan, "none"),
          cluster |-> objs, calls |-> get]
    ELSE LET verb == IF objs[k].present THEN "replaced" ELSE "created"
             op   == IF objs[k].present THEN "Replace" ELSE "Create"
         IN IF plan
            THEN [err |-> "nil", status |-> LogAction(plan, verb),
                  cluster |-> objs, calls |-> get]
            ELSE IF fail = [at |-> i, step |-> "Mutate"]
            THEN [err |-> op \o "Error", status |-> LogAction(plan, "none"),
                  cluster |-> objs, calls |-> Append(get, Call(op, i))]
            ELSE [err |-> "nil", status |-> LogAction(plan, verb),
                  cluster |-> [objs EXCEPT ![k] = Obj(item.spec)],
                  calls |-> Append(get, Call(op, i))]

\* Variant of the rewrite: only a reference without a separator is refused.
TransformImage_LooseFormat(item, region) ==
    IF item.kind = "DaemonSet"
    THEN LET image == item.spec
             imageParts == Split(image)
         IN IF Len(imageParts) < 2
            THEN [err |-> "FormatError", item |-> item]
            ELSE IF HasSuffix(imageParts[1], awsNodeImageSuffix)
            THEN [err |-> "nil",
                  item |-> [item EXCEPT !.spec =
                      awsNodeImagePrefix(EKSResourceAccountID(region)) \o <<region>>
                      \o awsNodeImageSuffix \o <<":">> \o imageParts[2]]]
            ELSE [err |-> "nil", item |-> item]
    ELSE [err |-> "nil", item |-> item]

\* Lines 47-58: the registry rewrite of the DaemonSet's first container image.
TransformImage(item, region) ==
    IF item.kind = "DaemonSet"
    THEN LET image == item.spec
             imageParts == Split(image)
         IN IF Len(imageParts) # 2
            THEN [err |-> "FormatError", item |-> item]
            ELSE IF HasSuffix(imageParts[1], awsNodeImageSuffix)
            THEN [err |-> "nil",
                  item |-> [item EXCEPT !.spec =
                      awsNodeImagePrefix(EKSResourceAccountID(region)) \o <<region>>
                      \o awsNodeImageSuffix \o <<":">> \o imageParts[2]]]
            ELSE [err |-> "nil", item |-> item]
    ELSE [err |-> "nil", item |-> item]

\* Variant of the loop: CreateOrReplace is called with plan = false whatever
\* the mode of the run.
RECURSIVE ProcessItems_ApplyAlways(_, _, _, _, _, _)
ProcessItems_ApplyAlways(items, i, region, plan, fail, st) ==
    IF i > Len(items) THEN st
    ELSE
    LET raw == Append(st.calls, Call("NewRawResource", i)) IN
    IF fail = [at |-> i, step |-> "NewRawResource"]
    THEN [st EXCEPT !.err = "NewRawResourceError", !.calls = raw]
    ELSE
    LET tr == TransformImage(items[i], region) IN
    IF tr.err # "nil"
    THEN [st EXCEPT !.err = tr.err, !.calls = raw]
    ELSE IF tr.item.kind = "CustomResourceDefinition" /\ plan
    THEN ProcessItems_ApplyAlways(items, i + 1, region, plan, fail,
             [st EXCEPT !.calls = raw,
                        !.logs = Append(@, LogAction(plan, "replaced"))])
    ELSE
    LET r == CreateOrReplace(st.cluster, tr.item, i, FALSE, fail) IN
    IF r.err # "nil"
    THEN [st EXCEPT !.err = r.err, !.calls = raw \o r.calls, !.cluster = r.cluster]
    ELSE ProcessItems_ApplyAlways(items, i + 1, region, plan, fail,
             [st EXCEPT !.calls = raw \o r.calls, !.cluster = r.cluster,
                        !.logs = Append(@, r.status)])

\* Variant of the loop: a CustomResourceDefinition is skipped in both modes.
RECURSIVE ProcessItems_SkipCRDAlways(_, _, _, _, _, _)
ProcessItems_SkipCRDAlways(items, i, region, plan, fail, st) ==
    IF i > Len(items) THEN st
    ELSE
    LET raw == Append(st.calls, Call("NewRawResource", i)) IN
    IF fail = [at |-> i, step |-> "NewRawResource"]
    THEN [st EXCEPT !.err = "NewRawResourceError", !.calls = raw]
    ELSE
    LET tr == TransformImage(items[i], region) IN
    IF tr.err # "nil"
    THEN [st EXCEPT !.err = tr.err, !.calls = raw]
    ELSE IF tr.item.kind = "CustomResourceDefinition"
    THEN ProcessItems_SkipCRDAlways(items, i + 1, region, plan, fail,
             [st EXCEPT !.calls = raw,
                        !.logs = Append(@, LogAction(plan, "replaced"))])
    ELSE
    LET r == CreateOrReplace(st.cluster, tr.item, i, plan, fail) IN
    IF r.err # "nil"
    THEN [st EXCEPT !.err = r.err, !.calls = raw \o r.calls, !.cluster = r.cluster]
    ELSE ProcessItems_SkipCRDAlways(items, i + 1, region, plan, fail,
             [st EXCEPT !.calls = raw \o r.calls, !.cluster = r.cluster,
                        !.logs = Append(@, r.status)])

\* Variant of the loop: the items are visited from the last to the first.
RECURSIVE ProcessItems_Reversed(_, _, _, _, _, _)
ProcessItems_Reversed(items, i, region, plan, fail, st) ==
    IF i > Len(items) THEN st
    ELSE
    LET k == Len(items) - i + 1
        raw == Append(st.calls, Call("NewRawResource", k)) IN
    IF fail = [at |-> k, step |-> "NewRawResource"]
    THEN [st EXCEPT !.err = "NewRawResourceError", !.calls = raw]
    ELSE
    LET tr == TransformImage(items[k], region) IN
    IF tr.err # "nil"
    THEN [st EXCEPT !.err = tr.err, !.calls = raw]
    ELSE IF tr.item.kind = "CustomResourceDefinition" /\ plan
    THEN ProcessItems_Reversed(items, i + 1, region, plan, fail,
             [st EXCEPT !.calls = raw,
                        !.logs = Append(@, LogAction(plan, "replaced"))])
    ELSE
    LET r == CreateOrReplace(st.cluster, tr.item, k, plan, fail) IN
    IF r.err # "nil"
    THEN [st EXCEPT !.err = r.err, !.calls = raw \o r.calls, !.cluster = r.cluster]
    ELSE ProcessItems_Reversed(items, i + 1, region, plan, fail,
             [st EXCEPT !.calls = raw \o r.calls, !.cluster = r.cluster,
                        !.logs = Append(@, r.status)])

\* Variant of the loop: an error of CreateOrReplace is kept but the loop goes
\* on with the next item.
RECURSIVE ProcessItems_ContinueOnError(_, _, _, _, _, _)
ProcessItems_ContinueOnError(items, i, region, plan, fail, st) ==
    IF i > Len(items) THEN st
    ELSE
    LET raw == Append(st.calls, Call("NewRawResource", i)) IN
    IF fail = [at |-> i, step |-> "NewRawResource"]
    THEN [st EXCEPT !.err = "NewRawResourceError", !.calls = raw]
    ELSE
    LET tr == TransformImage(items[i], region) IN
    IF tr.err # "nil"
    THEN [st EXCEPT !.err = tr.err, !.calls = raw]
    ELSE IF tr.item.kind = "CustomResourceDefinition" /\ plan
    THEN ProcessItems_ContinueOnError(items, i + 1, region, plan, fail,
             [st EXCEPT !.calls = raw,
                        !.logs = Append(@, LogAction(plan, "replaced"))])
    ELSE
    LET r == CreateOrReplace(st.cluster, tr.item, i, plan, fail) IN
    IF r.err # "nil"
    THEN ProcessItems_ContinueOnError(items, i + 1, region, plan, fail,
             [st EXCEPT !.err = r.err, !.calls = raw \o r.calls,
                        !.cluster = r.cluster])
    ELSE ProcessItems_ContinueOnError(items, i + 1, region, plan, fail,
             [st EXCEPT !.calls = raw \o r.calls, !.cluster = r.cluster,
                        !.logs = Append(@, r.status)])

\* Lines 42-72: the loop over list.Items, from item i on.  st carries the
\* cluster's objects, the collaborator calls and the log lines so far.
RECURSIVE ProcessItems(_, _, _, _, _, _)
ProcessItems(items, i, region, plan, fail, st) ==
    IF i > Len(items) THEN st
    ELSE
    LET raw == Append(st.calls, Call("NewRawResource", i)) IN
    IF fail = [at |-> i, step |-> "NewRawResource"]
    THEN [st EXCEPT !.err = "NewRawResourceError", !.calls = raw]
    ELSE
    LET tr == TransformImage(items[i], region) IN
    IF tr.err # "nil"
    THEN [st EXCEPT !.err = tr.err, !.calls = raw]
    ELSE IF tr.item.kind = "CustomResourceDefinition" /\ plan
    THEN ProcessItems(items, i + 1, region, plan, fail,
             [st EXCEPT !.calls = raw,
                        !.logs = Append(@, LogAction(plan, "replaced"))])
    ELSE
    LET r == CreateOrReplace(st.cluster, tr.item, i, plan, fail) IN
    IF r.err # "nil"
    THEN [st EXCEPT !.err = r.err, !.calls = raw \o r.calls, !.cluster = r.cluster]
    ELSE ProcessItems(items, i + 1, region, plan, fail,
             [st EXCEPT !.calls = raw \o r.calls, !.cluster = r.cluster,
                        !.logs = Append(@, r.status)])

\* Line 27: the typed client's Get of the aws-node DaemonSet in kube-system.
DaemonSetsGet(objs, fail) ==
    IF fail = [at |-> 0, step |-> "Probe"] THEN "ProbeError"
    ELSE IF ~objs[DaemonSetKey].present THEN "NotFound"
    ELSE "nil"

\* Variant: a missing DaemonSet is returned as an error like any other.
ProbeVerdict_NoSoftSkip(err) ==
    IF err # "nil" THEN "fail" ELSE "continue"

\* Variant: every error of the probe is taken for a missing DaemonSet.
ProbeVerdict_SkipAnyError(err) ==
    IF err # "nil" THEN "skip" ELSE "continue"

\* Lines 28-34: a missing DaemonSet ends the run without an error, any other
\* error of the probe is returned.
ProbeVerdict(err) ==
    IF err # "nil"
    THEN IF err = "NotFound" THEN "skip" ELSE "fail"
    ELSE "continue"

\* Variant: a completed run always reports a change.
Aggregate_AlwaysChanged(plan) == TRUE

\* Lines 74-80: the value returned after the loop.
Aggregate(plan) == IF plan THEN TRUE ELSE FALSE

AdResult(changed, err, objs, calls, logs) ==
    [changed |-> changed, err |-> err, cluster |-> objs, calls |-> calls, logs |-> logs]

\* UpdateAWSNode(rawClient, region, plan); list is what LoadAsset returns.
UpdateAWSNode(objs, list, region, plan, fail) ==
    LET probe == <<Call("GetDaemonSet", 0)>>
        load  == Append(probe, Call("LoadAsset", 0))
    IN
    LET perr == DaemonSetsGet(objs, fail) IN
    IF ProbeVerdict(perr) = "fail"
    THEN AdResult(FALSE, perr, objs, probe, <<>>)
    ELSE IF ProbeVerdict(perr) = "skip"
    THEN AdResult(FALSE, "nil", objs, probe, <<LogAction(plan, "not found")>>)
    ELSE IF fail = [at |-> 0, step |-> "LoadAsset"]
    THEN AdResult(FALSE, "LoadAssetError", objs, load, <<>>)
    ELSE
    LET st == ProcessItems(list, 1, region, plan, fail,
                  [err |-> "nil", cluster |-> objs, calls |-> load, logs |-> <<>>])
    IN IF st.err # "nil"
       THEN AdResult(FALSE, st.err, st.cluster, st.calls, st.logs)
       ELSE IF plan
       THEN AdResult(Aggregate(plan), "nil", st.cluster, st.calls,
                     Append(st.logs, LogAction(plan, "not up-to-date")))
       ELSE AdResult(Aggregate(plan), "nil", st.cluster, st.calls,
                     Append(st.logs, LogAction(plan, "now up-to-date")))

AdIdle ==
    [op |-> "idle", list |-> <<>>, region |-> "us-west-2", plan |-> FALSE,
     fail |-> NoFail, before |-> [k \in Keys |-> Absent],
     changed |-> FALSE, err |-> "nil", calls |-> <<>>, logs |-> <<>>]

\* The clusters an invocation may start from: the add-on installed or not,
\* each object absent, at an older revision, or already at the manifest's.
InitClusters ==
    {[k \in Keys |-> IF k = DaemonSetKey THEN ds ELSE IF k = CRDKey THEN crd ELSE role] :
        ds \in {Absent, Obj(OldImage)},
        crd \in {Absent, Obj(<<"crd-v1">>)},
        role \in {Absent, Obj(<<"rules-v1">>), Obj(<<"rules-v2">>)}}

(***************************************************************************)
(* The state machine                                                       *)
(***************************************************************************)

\* The default of a new cluster: public access only.
DefaultAccess == [private |-> FALSE, public |-> TRUE]

\* One run of `eksctl utils update-cluster-endpoints'.
UpdateClusterEndpoints ==
    \E privOv \in Overrides, pubOv \in Overrides, plan \in BOOLEAN,
       fail \in EndpointFailPoints :
        LET r == doUpdateClusterEndpoints(live, privOv, pubOv, plan, fail) IN
        /\ live' = r.live
        /\ ep' = [op |-> "run", privOv |-> privOv, pubOv |-> pubOv, plan |-> plan,
                  fail |-> fail, before |-> live,
                  err |-> r.err, calls |-> r.calls, logs |-> r.logs,
                  newPrivate |-> r.newPrivate, newPublic |-> r.newPublic,
                  verdict |-> r.verdict]
        /\ UNCHANGED <<cluster, ad>>

\* One run of UpdateAWSNode, called by `eksctl utils update-aws-node'.
UpdateAddon ==
    /\ ad.op = "idle"
    /\ \E list \in Manifests, region \in Regions, plan \in BOOLEAN,
          fail \in AddonFailPoints :
        LET r == UpdateAWSNode(cluster, list, region, plan, fail) IN
        /\ cluster' = r.cluster
        /\ ad' = [op |-> "run", list |-> list, region |-> region, plan |-> plan,
                  fail |-> fail, before |-> cluster,
                  changed |-> r.changed, err |-> r.err, calls |-> r.calls,
                  logs |-> r.logs]
        /\ UNCHANGED <<live, ep>>

\* The command that called UpdateAWSNode exits; the next one can start.
AddonReturn ==
    /\ ad.op = "run"
    /\ ad' = AdIdle
    /\ UNCHANGED <<live, ep, cluster>>

\* Runs of the endpoint command against one cluster.
EndpointInit ==
    /\ live \in AccessStates
    /\ cluster = [k \in Keys |-> Absent]
    /\ ep = EpIdle
    /\ ad = AdIdle

EndpointNext == UpdateClusterEndpoints

EndpointSpec == EndpointInit /\ [][EndpointNext]_vars

\* Runs of the add-on update against one cluster.
AddonInit ==
    /\ live = DefaultAccess
    /\ cluster \in InitClusters
    /\ ep = EpIdle
    /\ ad = AdIdle

AddonNext == UpdateAddon \/ AddonReturn

AddonSpec == AddonInit /\ [][AddonNext]_vars

\* One command of either kind, issued against a cluster in any state.
CommandInit ==
    /\ live \in AccessStates
    /\ cluster \in InitClusters
    /\ ep = EpIdle
    /\ ad = AdIdle

EndpointCommand ==
    /\ ep.op = "idle"
    /\ ad.op = "idle"
    /\ UpdateClusterEndpoints

AddonCommand ==
    /\ ep.op = "idle"
    /\ UpdateAddon

CommandNext == EndpointCommand \/ AddonCommand

CommandSpec == CommandInit /\ [][CommandNext]_vars

(***************************************************************************)
(* Properties                                                              *)
(***************************************************************************)

\* The run reached line 83: the current state was loaded.
Loaded(e) == e.op = "run" /\ \E i \in 1..Len(e.logs) : e.logs[i] = "current"

EpLogged(e, line) == \E i \in 1..Len(e.logs) : e.logs[i] = line

EpCalled(e, name) == \E i \in 1..Len(e.calls) : e.calls[i] = name

\* The number of calls of the mutating API in the run.
UpdateCalls(e) ==
    Cardinality({i \in 1..Len(e.calls) : e.calls[i] = "UpdateClusterConfigForEndpoints"})

\* The desired state the run resolved.
Resolved(e) == [private |-> e.newPrivate, public |-> e.newPublic]

NoAccessState == [private |-> FALSE, public |-> FALSE]

\* The outcome "changed": the command succeeded and announced an update
\* instead of "already up to date".
EpChanged(e) == e.err = "nil" /\ EpLogged(e, "intended") /\ ~EpLogged(e, "upToDate")

\* C1: a cluster reachable by at least one path is still reachable by at
\* least one path after any run of the endpoint command, whatever the flags,
\* the mode and the outcome of the update call.
C1_AccessNeverLost ==
    [][(live.private \/ live.public) => (live'.private \/ live'.public)]_vars

C1_Witness ==
    /\ Loaded(ep)
    /\ ep.before.private \/ ep.before.public
    /\ Resolved(ep) = NoAccessState
    /\ ~ep.plan
    /\ live = ep.before

\* C2: whenever the resolved state is validated, the run rejects it exactly
\* when both accesses are false (with the no-access error), warns exactly when
\* it is private-only, and neither rejects nor warns for the other two.
C2_ValidationTable ==
    ep.verdict # "none" =>
        /\ (ep.verdict = "reject") <=> (~ep.newPrivate /\ ~ep.newPublic)
        /\ (ep.verdict = "reject") <=> (ep.err = "ErrClusterEndpointNoAccess")
        /\ (ep.verdict = "warn") <=> (ep.newPrivate /\ ~ep.newPublic)
        /\ (ep.verdict = "warn") <=> EpLogged(ep, "warning")
        /\ (ep.verdict = "accept") <=> ep.newPublic

C2_Witness ==
    /\ ep.verdict = "warn"
    /\ ep.newPrivate /\ ~ep.newPublic
    /\ ep.err = "nil"
    /\ EpLogged(ep, "warning")

\* C3: a run whose resolved state equals the current state succeeds with
\* changed=false, validates nothing and sends no update, for every current
\* state and both modes.
C3_NoChangeIsNoOp ==
    (Loaded(ep) /\ Resolved(ep) = ep.before) =>
        /\ ep.err = "nil"
        /\ ~EpChanged(ep)
        /\ EpLogged(ep, "upToDate")
        /\ ~EpCalled(ep, "ValidateClusterEndpointConfig")
        /\ UpdateCalls(ep) = 0
        /\ live = ep.before

C3_Witness ==
    /\ Loaded(ep)
    /\ ep.before = NoAccessState
    /\ Resolved(ep) = ep.before
    /\ ep.privOv = "false"
    /\ ~ep.plan
    /\ ep.err = "nil"

\* C4 as stated: every plan-mode run whose resolved state differs from the
\* current state returns changed=true and sends no update.
C4_Original ==
    (Loaded(ep) /\ Resolved(ep) # ep.before /\ ep.plan) =>
        /\ EpChanged(ep)
        /\ UpdateCalls(ep) = 0
        /\ live = ep.before

\* C4 (amended): a plan-mode run whose resolved state differs from the
\* current state and has at least one access enabled returns changed=true and
\* sends no update; the live state is the one before the run.
C4_PlanNeverUpdates ==
    (Loaded(ep) /\ Resolved(ep) # ep.before /\ ep.plan
        /\ Resolved(ep) # NoAccessState) =>
        /\ EpChanged(ep)
        /\ UpdateCalls(ep) = 0
        /\ live = ep.before

C4_Witness ==
    /\ Loaded(ep)
    /\ ep.plan
    /\ Resolved(ep) # ep.before
    /\ Resolved(ep) # NoAccessState
    /\ EpChanged(ep)
    /\ live = ep.before

\* C5: each field of the resolved state is the flag's value when the flag was
\* given and the current value when it was not.
C5_ResolveFieldByField ==
    Loaded(ep) =>
        /\ ep.newPrivate = (IF ep.privOv = "unset" THEN ep.before.private
                            ELSE ep.privOv = "true")
        /\ ep.newPublic = (IF ep.pubOv = "unset" THEN ep.before.public
                           ELSE ep.pubOv = "true")

C5_Witness ==
    /\ Loaded(ep)
    /\ ep.before = [private |-> FALSE, public |-> TRUE]
    /\ ep.privOv = "true" /\ ep.pubOv = "unset"
    /\ Resolved(ep) = [private |-> TRUE, public |-> TRUE]

\* C6: a run whose resolved state differs from the current state and has both
\* accesses false returns the no-access error and sends no update, in plan
\* mode and in apply mode; the live state is unchanged.
C6_NoAccessRejected ==
    (Loaded(ep) /\ Resolved(ep) # ep.before /\ Resolved(ep) = NoAccessState) =>
        /\ ep.err = "ErrClusterEndpointNoAccess"
        /\ UpdateCalls(ep) = 0
        /\ live = ep.before

C6_Witness ==
    /\ Loaded(ep)
    /\ ep.before = [private |-> TRUE, public |-> FALSE]
    /\ ep.privOv = "false" /\ ep.pubOv = "false"
    /\ ~ep.plan
    /\ ep.fail = "none"
    /\ ep.err = "ErrClusterEndpointNoAccess"

\* C7: an apply-mode run whose resolved state is private-only and differs from
\* the current state logs the warning and still sends the update; when the
\* update succeeds the live state is private-only and the run succeeds.
C7_PrivateOnlyWarnsAndApplies ==
    (Loaded(ep) /\ Resolved(ep) # ep.before /\ ~ep.plan
        /\ ep.newPrivate /\ ~ep.newPublic) =>
        /\ EpLogged(ep, "warning")
        /\ ep.err # "ErrClusterEndpointPrivateOnly"
        /\ UpdateCalls(ep) = 1
        /\ (ep.fail # "UpdateClusterConfigForEndpoints" =>
                /\ ep.err = "nil"
                /\ live = [private |-> TRUE, public |-> FALSE])

C7_Witness ==
    /\ Loaded(ep)
    /\ ~ep.plan
    /\ ep.before = [private |-> TRUE, public |-> TRUE]
    /\ EpLogged(ep, "warning")
    /\ ep.err = "nil"
    /\ live = [private |-> TRUE, public |-> FALSE]

AdCalled(a, ops) == \E i \in 1..Len(a.calls) : a.calls[i].op \in ops

\* C8: when the aws-node DaemonSet is not found, the run returns
\* changed=false and no error in both modes, loads no manifest, creates and
\* replaces nothing, and leaves the cluster's objects as they were.
C8_AbsentAddonSoftSkip ==
    (ad.op = "run" /\ ad.fail.step # "Probe" /\ ~ad.before[DaemonSetKey].present) =>
        /\ ~ad.changed
        /\ ad.err = "nil"
        /\ ~AdCalled(ad, {"LoadAsset", "NewRawResource", "Get", "Create", "Replace"})
        /\ cluster = ad.before

C8_Witness ==
    /\ ad.op = "run"
    /\ ~ad.before[DaemonSetKey].present
    /\ ~ad.plan
    /\ ad.fail = NoFail
    /\ Len(ad.list) = MaxItems
    /\ ad.err = "nil"

\* C9: a plan-mode run never creates or replaces an object: every item is
\* skipped (CRD) or only looked up, and the cluster's objects after the run
\* are those before it, for every manifest and every initial cluster.
C9_PlanNeverMutates ==
    (ad.op = "run" /\ ad.plan) =>
        /\ ~AdCalled(ad, {"Create", "Replace"})
        /\ cluster = ad.before
        /\ \A i \in 1..Len(ad.calls) :
              (ad.calls[i].op = "Get") => ad.list[ad.calls[i].item].kind # CRDKey.kind

C9_Witness ==
    /\ ad.op = "run"
    /\ ad.plan
    /\ ad.changed
    /\ Len(ad.list) = MaxItems
    /\ \E i \in 1..Len(ad.list) : ad.list[i].kind = CRDKey.kind
    /\ \E i \in 1..Len(ad.list) :
          /\ ad.list[i].kind = RoleKey.kind
          /\ ~ad.before[RoleKey].present
    /\ AdCalled(ad, {"Get"})

\* C10: when the DaemonSet is present and the run ends without an error, it
\* returns changed=true in plan mode and changed=false in apply mode, whatever
\* the manifest holds and whether or not an object was created or altered.
C10_ChangedIsPlan ==
    (ad.op = "run" /\ ad.before[DaemonSetKey].present /\ ad.err = "nil") =>
        (ad.changed <=> ad.plan)

C10_Witness ==
    /\ ad.op = "run"
    /\ ad.before[DaemonSetKey].present
    /\ ~ad.plan
    /\ ad.err = "nil"
    /\ cluster # ad.before
    /\ ~ad.changed

\* The outcome "changed" of an endpoint run, or "error" when it failed.
EpVerdict(r) ==
    IF r.err # "nil" THEN "error" ELSE IF EpChanged(r) THEN "changed" ELSE "unchanged"

\* The same for an add-on run.
AdVerdict(r) ==
    IF r.err # "nil" THEN "error" ELSE IF r.changed THEN "changed" ELSE "unchanged"

\* The run of the state's endpoint command in the other mode, from the same
\* live state, with the same flags and the same collaborator outcomes.
EpOtherMode ==
    doUpdateClusterEndpoints(ep.before, ep.privOv, ep.pubOv, ~ep.plan, ep.fail)

\* The same for the state's add-on run.
AdOtherMode ==
    UpdateAWSNode(ad.before, ad.list, ad.region, ~ad.plan, ad.fail)

\* C11 as stated: for both reconcilers, the run in plan mode has the verdict
\* of the run in apply mode on the same inputs and the same remote state, and
\* a plan-mode run mutates nothing.
C11_Original ==
    /\ ep.op = "run" =>
          /\ EpVerdict(EpOtherMode) = EpVerdict(ep)
          /\ ep.plan => live = ep.before
    /\ ad.op = "run" =>
          /\ AdVerdict(AdOtherMode) = AdVerdict(ad)
          /\ ad.plan => cluster = ad.before

\* C11 (amended): a plan-mode run of either reconciler mutates nothing.  The
\* endpoint run has in plan mode the verdict of the apply-mode run whose
\* update call succeeds.  An add-on run that finds the DaemonSet and completes
\* reports changed=true in plan mode and changed=false in apply mode.
C11_PlanApplyParity ==
    /\ ep.op = "run" =>
          /\ ep.plan => live = ep.before
          /\ ep.fail # "UpdateClusterConfigForEndpoints" =>
                EpVerdict(EpOtherMode) = EpVerdict(ep)
    /\ ad.op = "run" =>
          /\ ad.plan => cluster = ad.before
          /\ (ad.before[DaemonSetKey].present /\ ad.err = "nil"
                /\ AdOtherMode.err = "nil") =>
                /\ AdVerdict(ad) = IF ad.plan THEN "changed" ELSE "unchanged"
                /\ AdVerdict(AdOtherMode) # AdVerdict(ad)

C11_Witness ==
    /\ Loaded(ep)
    /\ ep.plan
    /\ ep.fail = "none"
    /\ EpVerdict(ep) = "changed"
    /\ EpVerdict(EpOtherMode) = "changed"
    /\ EpOtherMode.live # ep.before
    /\ live = ep.before

AdCall(a, op, i) == \E j \in 1..Len(a.calls) : a.calls[j] = Call(op, i)

\* The loop of the run got to item i.
Reached(a, i) == AdCall(a, "NewRawResource", i)

\* The number of ":" in an image reference.
Separators(img) == Cardinality({k \in 1..Len(img) : img[k] = ":"})

\* Item i got past the building of its handle and the image rewrite.
Prepared(a, i) ==
    /\ Reached(a, i)
    /\ a.fail # [at |-> i, step |-> "NewRawResource"]
    /\ a.list[i].kind = "DaemonSet" => Separators(a.list[i].spec) = 1

\* C12: an item of kind CustomResourceDefinition is not passed to
\* create-or-replace in plan mode, the loop going on with the next item, and
\* is passed to it in apply mode; an item of any other kind is passed to it in
\* both modes.
C12_CRDSkippedOnlyInPlan ==
    ad.op = "run" =>
        \A i \in 1..Len(ad.list) :
            Prepared(ad, i) =>
                /\ AdCall(ad, "Get", i) <=>
                      ~(ad.list[i].kind = "CustomResourceDefinition" /\ ad.plan)
                /\ (ad.list[i].kind = "CustomResourceDefinition" /\ ad.plan) =>
                      /\ ~AdCall(ad, "Create", i) /\ ~AdCall(ad, "Replace", i)
                      /\ i < Len(ad.list) => Reached(ad, i + 1)

C12_Witness ==
    /\ ad.op = "run"
    /\ ad.plan
    /\ Len(ad.list) = 2
    /\ ad.list[1].kind = "CustomResourceDefinition"
    /\ ad.list[2].kind = "ClusterRole"
    /\ ~AdCall(ad, "Get", 1)
    /\ AdCall(ad, "Get", 2)

\* The calls of create-or-replace and of what it does, in the order made.
IsApplyCall(c) == c.op \in {"Get", "Create", "Replace"}

\* C13: within one run the calls of create-or-replace follow the order of the
\* manifest, one item at a time: no call for item j precedes a call for item i
\* when i < j, and no item is looked up, created or replaced twice.
C13_ManifestOrder ==
    ad.op = "run" =>
        \A p, q \in 1..Len(ad.calls) :
            (p < q /\ ad.calls[p].item >= 1) =>
                /\ ad.calls[p].item <= ad.calls[q].item
                /\ ad.calls[p] # ad.calls[q]
                /\ (IsApplyCall(ad.calls[p]) /\ ad.calls[q].op = "Get") =>
                      ad.calls[p].item < ad.calls[q].item

C13_Witness ==
    /\ ad.op = "run"
    /\ ~ad.plan
    /\ ad.err = "nil"
    /\ Len(ad.list) = 2
    /\ KeyOf(ad.list[1]) # KeyOf(ad.list[2])
    /\ \E p, q \in 1..Len(ad.calls) :
          /\ p < q
          /\ ad.calls[p].item = 1 /\ ad.calls[p].op \in {"Create", "Replace"}
          /\ ad.calls[q].item = 2 /\ ad.calls[q].op \in {"Create", "Replace"}

\* The errors a manifest item can end the run with.
ItemErrors ==
    {"NewRawResourceError", "FormatError", "GetError", "CreateError", "ReplaceError"}

\* The item the run stopped at: the item of its last call.
FailedItem(a) == a.calls[Len(a.calls)].item

\* Item j was created or replaced by the run.
Applied(a, j) == AdCall(a, "Create", j) \/ AdCall(a, "Replace", j)

\* C14: when item N fails, the run returns the error at once with
\* changed=false: no item after N is touched, item N is not passed to
\* create-or-replace when the handle or the image rewrite failed, N itself
\* alters nothing, and what the items before N created or replaced stays.
C14_AbortAtFailingItem ==
    (ad.op = "run" /\ ad.err \in ItemErrors) =>
        LET N == FailedItem(ad) IN
        /\ N \in 1..Len(ad.list)
        /\ ~ad.changed
        /\ \A p \in 1..Len(ad.calls) : ad.calls[p].item <= N
        /\ ad.err = "NewRawResourceError" <=>
              ad.fail = [at |-> N, step |-> "NewRawResource"]
        /\ ad.err = "FormatError" <=>
              /\ ad.fail # [at |-> N, step |-> "NewRawResource"]
              /\ ~Prepared(ad, N)
        /\ ad.err = "GetError" =>
              Prepared(ad, N) /\ ad.fail = [at |-> N, step |-> "Get"]
        /\ ad.err \in {"CreateError", "ReplaceError"} =>
              /\ Prepared(ad, N) /\ ad.fail = [at |-> N, step |-> "Mutate"] /\ ~ad.plan
              /\ AdCall(ad, IF ad.err = "CreateError" THEN "Create" ELSE "Replace", N)
        /\ ad.err \in {"NewRawResourceError", "FormatError"} =>
              ~AdCall(ad, "Get", N) /\ ~Applied(ad, N)
        /\ \A k \in Keys :
              LET S == {j \in 1..(N - 1) : KeyOf(ad.list[j]) = k /\ Applied(ad, j)} IN
              IF S = {} THEN cluster[k] = ad.before[k]
              ELSE LET last == CHOOSE j \in S : \A m \in S : m <= j IN
                   cluster[k] = Obj(TransformImage(ad.list[last], ad.region).item.spec)

C14_Witness ==
    /\ ad.op = "run"
    /\ ~ad.plan
    /\ ad.err = "FormatError"
    /\ Len(ad.list) = 2
    /\ FailedItem(ad) = 2
    /\ Applied(ad, 1)
    /\ cluster # ad.before

\* Item j was created or replaced and the call succeeded.
Stored(a, j) == Applied(a, j) /\ a.fail # [at |-> j, step |-> "Mutate"]

\* "<account>.dkr.ecr.<region>.amazonaws.com/amazon-k8s-cni:<tag>"
RegionalImage(region, tag) ==
    <<EKSResourceAccountID(region), ".dkr.ecr.", region,
      ".amazonaws.com/amazon-k8s-cni", ":">> \o tag

\* What the rewrite is to make of a reference with exactly one separator.
ExpectedImage(img, region) ==
    LET c    == CHOOSE k \in 1..Len(img) : img[k] = ":"
        host == SubSeq(img, 1, c - 1)
        tag  == SubSeq(img, c + 1, Len(img))
    IN IF host # <<>> /\ host[Len(host)] = ".amazonaws.com/amazon-k8s-cni"
       THEN RegionalImage(region, tag)
       ELSE img

\* C15: for a DaemonSet item whose handle was built, an image reference with
\* no or several separators ends the run with the format error before the
\* item is applied; one with exactly one separator is applied, rewritten to
\* the region's registry with its tag kept when its host ends with the
\* upstream suffix, and as it is otherwise.
C15_ImageRewrite ==
    ad.op = "run" =>
        \A i \in 1..Len(ad.list) :
            (/\ Reached(ad, i)
             /\ ad.fail # [at |-> i, step |-> "NewRawResource"]
             /\ ad.list[i].kind = "DaemonSet") =>
                LET img == ad.list[i].spec IN
                IF Separators(img) # 1
                THEN /\ ad.err = "FormatError"
                     /\ FailedItem(ad) = i
                     /\ ~AdCall(ad, "Get", i)
                     /\ ~Applied(ad, i)
                ELSE /\ AdCall(ad, "Get", i)
                     /\ ~(ad.err = "FormatError" /\ FailedItem(ad) = i)
                     /\ (/\ Stored(ad, i)
                         /\ \A j \in (i + 1)..Len(ad.list) :
                               ~(Stored(ad, j) /\ ad.list[j].kind = "DaemonSet")) =>
                           cluster[DaemonSetKey] = Obj(ExpectedImage(img, ad.region))

C15_Witness ==
    /\ ad.op = "run"
    /\ ~ad.plan
    /\ ad.err = "nil"
    /\ ad.region = "ap-east-1"
    /\ Len(ad.list) >= 1
    /\ ad.list[Len(ad.list)].kind = "DaemonSet"
    /\ ad.list[Len(ad.list)].spec = UpstreamImage
    /\ Stored(ad, Len(ad.list))
    /\ cluster[DaemonSetKey].spec =
          <<"800184023465", ".dkr.ecr.", "ap-east-1",
            ".amazonaws.com/amazon-k8s-cni", ":", "v1.5.3">>

\* The specification item i is applied with.
AppliedSpec(a, i) == TransformImage(a.list[i], a.region).item

\* The items before i that stored an object of item i's identity.
StoredBefore(a, i) ==
    {j \in 1..(i - 1) : Stored(a, j) /\ KeyOf(a.list[j]) = KeyOf(a.list[i])}

\* C16: in apply mode create-or-replace creates the object of the item's
\* identity when it is absent and replaces it when it is present, leaving the
\* item's specification in the cluster; a further call with the same
\* specification takes the replace branch, returns no error and leaves the
\* cluster as the first call left it.
C16_IdempotentUpsert ==
    (ad.op = "run" /\ ~ad.plan) =>
        \A i \in 1..Len(ad.list) :
            LET k == KeyOf(ad.list[i])
                present == ad.before[k].present \/ StoredBefore(ad, i) # {}
            IN
            /\ (AdCall(ad, "Get", i) /\ ad.fail # [at |-> i, step |-> "Get"]) =>
                  /\ AdCall(ad, "Replace", i) <=> present
                  /\ AdCall(ad, "Create", i) <=> ~present
            /\ (/\ Stored(ad, i)
                /\ \A j \in (i + 1)..Len(ad.list) :
                      ~(Stored(ad, j) /\ KeyOf(ad.list[j]) = k)) =>
                  LET again == CreateOrReplace(cluster, AppliedSpec(ad, i), i, FALSE, NoFail)
                  IN /\ cluster[k] = Obj(AppliedSpec(ad, i).spec)
                     /\ again.err = "nil"
                     /\ again.status = LogAction(FALSE, "replaced")
                     /\ again.calls = <<Call("Get", i), Call("Replace", i)>>
                     /\ again.cluster = cluster

C16_Witness ==
    /\ ad.op = "run"
    /\ ~ad.plan
    /\ ad.err = "nil"
    /\ Len(ad.list) = 2
    /\ ad.list[1].kind = "ClusterRole"
    /\ ad.list[2].kind = "ClusterRole"
    /\ ~ad.before[RoleKey].present
    /\ AdCall(ad, "Create", 1)
    /\ AdCall(ad, "Replace", 2)
    /\ cluster[RoleKey] = Obj(ad.list[2].spec)

\* C17: an apply-mode run whose resolved state differs from the current state
\* and keeps an access enabled calls the update API exactly once with the
\* resolved state, unset fields at their current value; when the call
\* succeeds the live state is the resolved state, when it fails the run
\* returns its error and the live state is entirely the one before.
C17_ApplyUpdatesOnce ==
    (Loaded(ep) /\ Resolved(ep) # ep.before /\ ~ep.plan
        /\ Resolved(ep) # NoAccessState) =>
        /\ UpdateCalls(ep) = 1
        /\ ep.calls[Len(ep.calls)] = "UpdateClusterConfigForEndpoints"
        /\ IF ep.fail = "UpdateClusterConfigForEndpoints"
           THEN ep.err = "UpdateError" /\ live = ep.before
           ELSE /\ ep.err = "nil"
                /\ live = Resolved(ep)
                /\ ep.privOv = "unset" => live.private = ep.before.private
                /\ ep.pubOv = "unset" => live.public = ep.before.public

C17_Witness ==
    /\ Loaded(ep)
    /\ ~ep.plan
    /\ ep.before = [private |-> TRUE, public |-> FALSE]
    /\ ep.privOv = "unset" /\ ep.pubOv = "true"
    /\ ep.err = "nil"
    /\ live = [private |-> TRUE, public |-> TRUE]

\* The position of a call in the run, 0 when it was not made.
CallIndex(e, name) ==
    IF EpCalled(e, name) THEN CHOOSE i \in 1..Len(e.calls) : e.calls[i] = name ELSE 0

CallCount(e, name) == Cardinality({i \in 1..Len(e.calls) : e.calls[i] = name})

\* C18: a run calls the update API only after it has, in this order, loaded
\* the current state, found the resolved state different from it and
\* validated it without the no-access error; it loads once and updates at
\* most once, and a failed load returns its error with no validation and no
\* update.
C18_UpdateOnlyAfterLoadDiffValidate ==
    ep.op = "run" =>
        /\ CallCount(ep, "GetCurrentClusterConfigForEndpoints") <= 1
        /\ CallCount(ep, "UpdateClusterConfigForEndpoints") <= 1
        /\ Loaded(ep) => CallCount(ep, "GetCurrentClusterConfigForEndpoints") = 1
        /\ EpCalled(ep, "ValidateClusterEndpointConfig") =>
              /\ Loaded(ep)
              /\ Resolved(ep) # ep.before
              /\ CallIndex(ep, "GetCurrentClusterConfigForEndpoints")
                    < CallIndex(ep, "ValidateClusterEndpointConfig")
        /\ EpCalled(ep, "UpdateClusterConfigForEndpoints") =>
              /\ Loaded(ep)
              /\ Resolved(ep) # ep.before
              /\ EpCalled(ep, "ValidateClusterEndpointConfig")
              /\ CallIndex(ep, "ValidateClusterEndpointConfig")
                    < CallIndex(ep, "UpdateClusterConfigForEndpoints")
              /\ ep.verdict \in {"accept", "warn"}
              /\ Resolved(ep) # NoAccessState
        /\ ep.fail = "GetCurrentClusterConfigForEndpoints" =>
              /\ ep.err = "GetCurrentError"
              /\ CallCount(ep, "GetCurrentClusterConfigForEndpoints") = 1
              /\ ~EpCalled(ep, "ValidateClusterEndpointConfig")
              /\ ~EpCalled(ep, "UpdateClusterConfigForEndpoints")
              /\ live = ep.before

C18_Witness ==
    /\ ep.op = "run"
    /\ ep.calls = <<"Load", "NewCtl", "CheckAuth", "CanUpdate",
                    "GetCurrentClusterConfigForEndpoints",
                    "ValidateClusterEndpointConfig",
                    "UpdateClusterConfigForEndpoints">>
    /\ ep.err = "nil"
    /\ live # ep.before

\* The endpoint command run once more from the state's live state with the
\* flags of the run just made.
EpAgain(plan, fail) == doUpdateClusterEndpoints(live, ep.privOv, ep.pubOv, plan, fail)

\* The add-on update run once more in apply mode on the state's cluster with
\* the manifest and the region of the run just made.
AdAgain == UpdateAWSNode(cluster, ad.list, ad.region, FALSE, NoFail)

\* C19: after an apply-mode endpoint run that succeeded, the same command
\* run again finds the resolved state equal to the current one, reports
\* "already up to date" and calls no update; after an apply-mode add-on run
\* that succeeded, a second run on the same manifest succeeds and leaves the
\* cluster's objects as the first run left them.
C19_ReinvocationIsSafe ==
    /\ (Loaded(ep) /\ ~ep.plan /\ ep.err = "nil") =>
          \A plan \in BOOLEAN, fail \in EndpointFailPoints :
              LET r == EpAgain(plan, fail) IN
              /\ UpdateCalls(r) = 0
              /\ r.live = live
              /\ EpVerdict(r) # "changed"
              /\ EpLogged(r, "current") =>
                    /\ [private |-> r.newPrivate, public |-> r.newPublic] = live
                    /\ EpVerdict(r) = "unchanged"
                    /\ EpLogged(r, "upToDate")
    /\ (ad.op = "run" /\ ~ad.plan /\ ad.err = "nil") =>
          /\ AdAgain.err = "nil"
          /\ AdAgain.cluster = cluster

C19_Witness ==
    /\ Loaded(ep)
    /\ ~ep.plan
    /\ ep.err = "nil"
    /\ live # ep.before
    /\ EpLogged(EpAgain(FALSE, "none"), "upToDate")

\* C20: a probe that fails with another error than not-found, or a manifest
\* that cannot be loaded, ends the run with an error and changed=false before
\* any item is prepared or applied; a run ends without an error and without
\* loading the manifest exactly when the probe reports not-found.
C20_ProbeAndLoadErrorsAbort ==
    ad.op = "run" =>
        /\ ad.fail.step = "Probe" =>
              /\ ad.err = "ProbeError"
              /\ ~ad.changed
              /\ ad.calls = <<Call("GetDaemonSet", 0)>>
              /\ cluster = ad.before
        /\ (ad.fail.step = "LoadAsset" /\ ad.before[DaemonSetKey].present) =>
              /\ ad.err = "LoadAssetError"
              /\ ~ad.changed
              /\ ad.calls = <<Call("GetDaemonSet", 0), Call("LoadAsset", 0)>>
              /\ cluster = ad.before
        /\ (ad.err = "nil" /\ ~AdCalled(ad, {"LoadAsset"})) <=>
              (ad.fail.step # "Probe" /\ ~ad.before[DaemonSetKey].present)

C20_Witness ==
    /\ ad.op = "run"
    /\ ad.fail.step = "Probe"
    /\ ad.before[DaemonSetKey].present
    /\ ~ad.plan
    /\ Len(ad.list) = MaxItems
    /\ ad.err = "ProbeError"
    /\ cluster = ad.before

====
